---- MODULE Spec2Model ----
(***************************************************************************)
(* Model of the Titan Files version control service                        *)
(* (titan/services/versions.py): changesets, staged files, file versions,  *)
(* file pointers, and the multi-step Commit protocol run by concurrent     *)
(* clients holding lazily loaded Changeset handles.                        *)
(***************************************************************************)
EXTENDS Integers, Sequences, FiniteSets, TLC

\* ---------------------------------------------------------------- bounds
\* Largest changeset number the strong counter may hand out.
MaxNum == 4

\* Largest number of staging changesets clients create.
MaxStaging == 2

\* Largest number of calls (NewStagingChangeset, Write, Touch, Delete, Commit)
\* clients make.
MaxCalls == 6

\* Largest number of files whose latest change the file query does not show.
MaxLag == 1

\* Largest number of operations clients issue on the root tree when the
\* microversions service is enabled.
MaxTasks == 4

\* Largest number of changeset numbers the failed attempts of the
\* microversions worker use up.
MaxWaste == 2

\* With microversions enabled: room for one changeset pair per task and for
\* the changesets of the failed attempts.
MaxMvNum == 2 * MaxTasks + MaxWaste

\* With microversions enabled: three calls per attempt of the worker.
MaxMvCalls == 3 * (MaxTasks + MaxWaste)

\* Paths, in the fixed order used to lay out rows written by one commit.
PathSeq == <<"/a", "/b">>
Paths == {PathSeq[i] : i \in 1..Len(PathSeq)}
Clients == {"c1", "c2"}
Contents == {"x"}
Nums == 1..(IF MaxNum > MaxMvNum THEN MaxNum ELSE MaxMvNum)

\* ------------------------------------------------------------- constants
CHANGESET_NEW == "new"
CHANGESET_PRE_SUBMIT == "pre-submit"
CHANGESET_SUBMITTED == "submitted"
CHANGESET_DELETED == "deleted"
CHANGESET_DELETED_BY_SUBMIT == "deleted-by-submit"

FILE_CREATED == "created"
FILE_EDITED == "edited"
FILE_DELETED == "deleted"

\* The status of a file whose meta has no status: a file of the root tree.
NO_STATUS == "no-status"

\* The contents written with microversions enabled: a string and the
\* reference of a blob.
MvContents == {"x", "K"}
BlobKeys == {"K"}

\* The paths clients write, touch and delete with microversions enabled.
MvPaths == {"/a"}

\* A content over the size limit of a task's payload.
LARGE_FILE_CONTENT == "LARGE"

\* The users who log in, and None: nobody is logged in, or no user was given.
Users == {"u1", "u2"}
NoUser == "none"

\* Absent datastore entity / absent file / unset handle cache.
NoEnt == [status |-> "none", linked |-> 0]
NoFile == [status |-> "none", content |-> ""]
\* A Changeset object passed to a call: the long-lived object of that number
\* (kind "held", its cached entity survives the call) or an object made for
\* this call by Changeset(num) (kind "fresh", entity loaded on first use).
NoHandle == [num |-> 0, kind |-> "none"]
HandleKinds == {"held", "fresh"}

VARIABLES
  counter,           \* strong counter "num_changesets"
  changesets,        \* stored _Changeset entities, by number
  files,             \* primitive file store, keyed by versioned path
  index,             \* what the (eventually consistent) file query sees
  fileVersions,      \* stored _FileVersion rows in order of "created"
  pointers,          \* stored _FilePointer rows: path -> changeset_num (0: none)
  held,              \* Changeset._changeset_ent of the long-lived objects
  pc,                \* each client's position inside Write / Commit
  handle,            \* the Changeset object of each client's running call
  staged_file_objs,  \* Commit's local: path -> status of the listed file
  final_changeset,   \* Commit's local: final changeset number
  wpath,             \* Write's local: the path being written
  result,            \* outcome of the call that finished last
  ncalls,            \* number of calls clients have made
  microversions,     \* whether the microversions service is enabled
  root,              \* the root tree: plain path -> file
  queue,             \* the microversions task queue, oldest task first
  worker,            \* the deferred worker's position in _CommitMicroversion
  blobs,             \* the keys of the blobs in the blobstore
  issued,            \* history: the operations on the root tree so far
  request,           \* per client: the parameters of its last HTTP request
  response,          \* per client: the answer to its last HTTP request
  user,              \* per client: users.get_current_user() of its requests
  created_by,        \* stored _Changeset.created_by, by number
  changeset_created_by  \* _FileVersion.changeset_created_by, row by row

\* The state of the microversions service.
mvstate == <<microversions, root, queue, worker, blobs, issued>>

vars == <<counter, changesets, files, index, fileVersions, pointers, held,
          pc, handle, staged_file_objs, final_changeset, wpath, result, ncalls,
          microversions, root, queue, worker, blobs, issued, request,
          response, user, created_by, changeset_created_by>>

\* The state of the HTTP handlers.
httpstate == <<request, response>>

\* The state that the versions service alone leaves as it is.
extensions == <<mvstate, httpstate, user>>

\* The locals of the clients' running calls.
locals == <<pc, handle, staged_file_objs, final_changeset, wpath>>

NoListing == [p \in Paths |-> "none"]

\* The worker between tasks.
NoTask == [step |-> "idle", num |-> 0]

\* The values a request can carry as its "force" parameter.
ForceParams == {"absent", "", "1"}

\* The values a request can carry as its "manifest" parameter: none, the empty
\* string, or a JSON array of paths.
ManifestParams ==
  {[text |-> "absent", paths |-> {}], [text |-> "", paths |-> {}]}
    \cup {[text |-> "json", paths |-> m] : m \in SUBSET Paths}

\* A request: its ordinal among the client's requests and its parameters
\* (changeset 0: no commit request).
NewRequest(id, num, force, manifest) ==
  [id |-> id, changeset |-> num, force |-> force, manifest |-> manifest]

NoRequest == NewRequest(0, 0, "absent", [text |-> "absent", paths |-> {}])

\* No answer yet.
NoResponse == [status |-> 0, num |-> 0]

\* ------------------------------------------------------------ path rewriter
\* VERSIONS_PATH_FORMAT % (changeset.num, path): the versioned path is the
\* pair of the changeset number and the plain path.
_MakeVersionedPaths(path, num) == <<num, path>>

\* re.sub(VERSIONS_PATH_BASE_REGEX, '', path)
StripVersion(vpath) == vpath[2]

VersionedPaths == Nums \X Paths

\* ------------------------------------------------------------------ reads
\* Changeset.changeset_ent: the cached entity, loaded on first use.
changeset_ent(h) ==
  IF h.kind = "held" /\ held[h.num] # NoEnt THEN held[h.num] ELSE changesets[h.num]

\* The caches of the long-lived objects after h.changeset_ent was read.
Loaded(h) ==
  IF h.kind = "held" THEN [held EXCEPT ![h.num] = changeset_ent(h)] ELSE held

\* _FilePointer.versioned_path
PointerVersionedPath(p) == _MakeVersionedPaths(p, pointers[p])

\* files.Get of the primitive store at a versioned path (or NoFile).
FilesGet(vpath) == IF vpath \in VersionedPaths THEN files[vpath] ELSE NoFile

\* The hooks of the microversions service for exists and get without a
\* changeset: the call goes to the root tree, past the hooks of versions.
RootExists(p) == root[p] # NoFile
RootGet(p) == root[p]

\* Mutant of Exists: the hook of the versions service answers also when
\* microversions are enabled.
ExistsByPointer(p) == pointers[p] # 0

\* HookForExists.Pre without a changeset.
Exists(p) == IF microversions THEN RootExists(p) ELSE pointers[p] # 0

\* HookForGet.Pre/Post without a changeset: follow the pointer.
Get(p) ==
  IF microversions THEN RootGet(p)
  ELSE IF pointers[p] = 0 THEN NoFile ELSE FilesGet(PointerVersionedPath(p))

\* What a Pre hook hands back to the hook pipeline: a result that replaces
\* the inner call (hooks.TitanMethodResult), or keyword arguments for the
\* inner call, which runs with its own arguments where none is overridden.
TitanMethodResult(value) ==
  [short_circuit |-> TRUE, changed |-> FALSE, paths |-> {}, result |-> value]
ChangedKwargs(changed, paths) ==
  [short_circuit |-> FALSE, changed |-> changed, paths |-> paths,
   result |-> "none"]

\* HookForGet.Pre without a changeset, lines 123-135, for the requested plain
\* paths: the paths without a pointer are left out, and with none left the
\* bare value {} or None is returned (line 132), which overrides nothing.
HookForGetPre(paths) ==
  LET file_pointers == {p \in paths : pointers[p] # 0}
      versioned_paths == {PointerVersionedPath(p) : p \in file_pointers}
  IN  IF versioned_paths = {}
      THEN ChangedKwargs(FALSE, {})
      ELSE ChangedKwargs(TRUE, versioned_paths)

\* The versioned paths at which the inner files.Get of a Get without a
\* changeset reads the primitive store.
VersionedPathsRead(paths) ==
  LET pre == HookForGetPre(paths)
  IN  IF ~pre.short_circuit /\ pre.changed THEN pre.paths ELSE {}

\* The plain paths at which the inner files.Get of a Get without a changeset
\* reads the primitive store: the requested ones, when the hook neither
\* replaced the call nor overrode its paths.
PlainPathsRead(paths) ==
  LET pre == HookForGetPre(paths)
  IN  IF ~pre.short_circuit /\ ~pre.changed THEN paths ELSE {}

\* What a Get without a changeset gives back when none of the requested
\* paths has a pointer: the result of the hook, or else what the inner call
\* finds at the plain paths, passed through HookForGet.Post (lines 140-153),
\* which wraps a file in VersionedFile (lines 72-77) and fails on a path
\* that has no version prefix.
GetUnknown(paths, is_multiple) ==
  LET pre == HookForGetPre(paths)
  IN  IF pre.short_circuit THEN pre.result
      ELSE IF \E p \in PlainPathsRead(paths) : root[p] # NoFile
           THEN "AttributeError"
      ELSE IF is_multiple THEN "{}" ELSE "None"

\* HookForGet.Pre with a changeset: the changeset's own number is prepended.
GetIn(p, num) == FilesGet(_MakeVersionedPaths(p, num))

\* Changeset.GetFiles: list the files under the changeset (under the linked
\* staging changeset for a submitted one), keyed by plain path.
GetFiles(h) ==
  LET ent == changeset_ent(h)
      num == IF ent.status = CHANGESET_SUBMITTED THEN ent.linked ELSE h.num
  IN  [p \in Paths |-> index[_MakeVersionedPaths(p, num)].status]

ListedPaths(listing) == {p \in Paths : listing[p] # "none"}

\* VersionControlService.GetFileVersions: newest first.
RECURSIVE Reverse(_)
Reverse(s) == IF s = <<>> THEN <<>> ELSE Append(Reverse(Tail(s)), Head(s))

\* Mutant of GetFileVersions: the query orders by '-changeset_num'.
GetFileVersionsByNum(p) ==
  LET rows == {i \in 1..Len(fileVersions) : fileVersions[i].path = p}
      Rank(i) == Cardinality({j \in rows :
                    \/ fileVersions[j].changeset_num > fileVersions[i].changeset_num
                    \/ /\ fileVersions[j].changeset_num = fileVersions[i].changeset_num
                       /\ j > i})
  IN  [k \in 1..Cardinality(rows) |->
         fileVersions[CHOOSE i \in rows : Rank(i) = k - 1]]

\* filter('path =', path).order('-created'): the rows of p, latest first.
GetFileVersions(p) == Reverse(SelectSeq(fileVersions, LAMBDA fv : fv.path = p))

\* Datastore keys are paths of <<kind, name>> pairs, an entity's own pair last
\* and its ancestors' before it.
\* _Changeset.GetRootKey, lines 336-340: db.Key.from_path('_Changeset', '0').
GetRootKey == << <<"_Changeset", "0">> >>

\* The key of a _Changeset entity, lines 491-495: key_name str(num) under the
\* root key.
ChangesetKey(num) == GetRootKey \o << <<"_Changeset", ToString(num)>> >>

\* _FileVersion.MakeKeyName, lines 444-446: ':'.join([str(changeset.num), path]).
MakeKeyName(num, path) == ToString(num) \o ":" \o path

\* _Commit, lines 644-650: the key a row is put under, its key name under
\* parent=final_changeset.changeset_ent.
FileVersionKey(fv) ==
  ChangesetKey(fv.changeset_num)
    \o << <<"_FileVersion", MakeKeyName(fv.changeset_num, fv.path)>> >>

\* _FileVersion.get_by_key_name(key_name, parent=parent): the index of the row
\* stored under Key.from_path('_FileVersion', key_name, parent=parent), the
\* last put under that key; 0 stands for None.
get_by_key_name(key_name, parent) ==
  LET key == parent \o << <<"_FileVersion", key_name>> >>
      hits == {i \in 1..Len(fileVersions) :
                 FileVersionKey(fileVersions[i]) = key}
  IN  IF hits = {} THEN 0 ELSE CHOOSE i \in hits : \A j \in hits : j <= i

\* What a FileVersion whose lazy load raised FileVersionError reports.
FileVersionError ==
  [status |-> "FileVersionError", changeset_created_by |-> NoUser]

\* FileVersion._file_version with the status and changeset_created_by
\* properties, lines 365-374 and 393-403: the lazy load passes the key name
\* and no parent, and raises FileVersionError when it finds nothing.
_file_version(path, num) ==
  LET i == get_by_key_name(MakeKeyName(num, path), <<>>)
  IN  IF i = 0 THEN FileVersionError
      ELSE [status |-> fileVersions[i].status,
            changeset_created_by |-> changeset_created_by[i]]

\* The keys an ancestor query on _Changeset returns with the filter
\* status = st, taken from the first n changesets in ascending num.
RECURSIVE QueryChangesetsAsc(_, _)
QueryChangesetsAsc(st, n) ==
  IF n = 0 THEN <<>>
  ELSE IF changesets[n].status = st
       THEN Append(QueryChangesetsAsc(st, n - 1), n)
       ELSE QueryChangesetsAsc(st, n - 1)

\* Mutant of QueryChangesets: order('num') instead of order('-num').
QueryChangesetsAscending(st) == QueryChangesetsAsc(st, counter)

\* Lines 505-509: the ancestor query, strongly consistent, ordered by -num.
QueryChangesets(st) == Reverse(QueryChangesetsAsc(st, counter))

\* GetLastSubmittedChangeset, lines 502-513: the num of the Changeset
\* returned (0: none), and the error raised.
GetLastSubmittedChangeset ==
  LET found == QueryChangesets(CHANGESET_SUBMITTED)
      latest_changeset == IF found = <<>> THEN <<>> ELSE <<Head(found)>>
  IN  IF latest_changeset = <<>>
      THEN [num |-> 0, error |-> "ChangesetError"]
      ELSE [num |-> latest_changeset[1], error |-> "none"]

\* ------------------------------------------------------------------- Init
\* The empty datastore, the empty root tree and idle clients.
InitStore ==
  /\ counter = 0
  /\ changesets = [n \in Nums |-> NoEnt]
  /\ files = [vp \in VersionedPaths |-> NoFile]
  /\ index = [vp \in VersionedPaths |-> NoFile]
  /\ fileVersions = <<>>
  /\ pointers = [p \in Paths |-> 0]
  /\ held = [n \in Nums |-> NoEnt]
  /\ pc = [c \in Clients |-> "idle"]
  /\ handle = [c \in Clients |-> NoHandle]
  /\ staged_file_objs = [c \in Clients |-> NoListing]
  /\ final_changeset = [c \in Clients |-> 0]
  /\ wpath = [c \in Clients |-> "none"]
  /\ result = "none"
  /\ ncalls = 0
  /\ root = [p \in Paths |-> NoFile]
  /\ queue = <<>>
  /\ worker = NoTask
  /\ blobs = BlobKeys
  /\ issued = <<>>
  /\ request = [c \in Clients |-> NoRequest]
  /\ response = [c \in Clients |-> NoResponse]
  /\ user = [c \in Clients |-> "u1"]
  /\ created_by = [n \in Nums |-> NoUser]
  /\ changeset_created_by = <<>>

\* The versions service alone is enabled.
Init == InitStore /\ microversions = FALSE

\* The microversions service is enabled on top of the versions service.
MvInit == InitStore /\ microversions = TRUE

\* A client starts a call.
Call ==
  /\ ncalls < (IF microversions THEN MaxMvCalls ELSE MaxCalls)
  /\ ncalls' = ncalls + 1

\* The Changeset objects a call can be given.
Handles == {h \in [num : 1..counter, kind : HandleKinds] :
              h.kind = "held" => held[h.num] # NoEnt}

\* ------------------------------------------------------- changeset store
\* strong_counters.Increment: the next value of the counter.
Increment == counter + 1

\* _Changeset.created_by of a new entity, lines 331 and 497-498: the user
\* given, if one is given, and otherwise (auto_current_user_add) the user
\* logged in when the entity is made, who may be nobody.
NewCreatedBy(by, current_user) == IF by # NoUser THEN by ELSE current_user

\* Mutant of _NewChangeset: the incremented counter value is not stored.
_NewChangesetNoIncrement(status, by, current_user) ==
  /\ counter < (IF microversions THEN MaxMvNum ELSE MaxNum)
  /\ counter' = counter
  /\ changesets' = [changesets EXCEPT ![Increment] = [status |-> status, linked |-> 0]]
  /\ created_by' = [created_by EXCEPT ![Increment] =
                      NewCreatedBy(by, current_user)]

\* VersionControlService._NewChangeset: the entity put under a fresh number.
_NewChangeset(status, by, current_user) ==
  /\ counter < (IF microversions THEN MaxMvNum ELSE MaxNum)
  /\ counter' = Increment
  /\ changesets' = [changesets EXCEPT ![Increment] = [status |-> status, linked |-> 0]]
  /\ created_by' = [created_by EXCEPT ![Increment] =
                      NewCreatedBy(by, current_user)]

\* The staging changesets created so far.
StagingChangesets ==
  {n \in Nums : changesets[n].status \in {CHANGESET_NEW, CHANGESET_DELETED_BY_SUBMIT}}

\* VersionControlService.NewStagingChangeset(created_by=by): the returned
\* object keeps the entity it has just put.
NewStagingChangeset(c, by) ==
  /\ pc[c] = "idle"
  /\ Call
  /\ microversions \/ Cardinality(StagingChangesets) < MaxStaging
  /\ _NewChangeset(CHANGESET_NEW, by, user[c])
  /\ held' = [held EXCEPT ![counter'] = changesets'[counter']]
  /\ result' = "ok"
  /\ UNCHANGED <<files, index, fileVersions, changeset_created_by, pointers,
                 locals>>

\* The files whose latest write or delete the file query does not show yet.
Lagging == {vp \in VersionedPaths : index[vp] # files[vp]}

\* A change of the file at vp keeps the query at most MaxLag files behind.
MayLag(vp) == Cardinality(Lagging \cup {vp}) <= MaxLag

\* The file query catches up with one written or deleted file.
ApplyIndex(vp) ==
  /\ index[vp] # files[vp]
  /\ index' = [index EXCEPT ![vp] = files[vp]]
  /\ UNCHANGED <<counter, changesets, created_by, files, fileVersions,
                 changeset_created_by, pointers, held, locals, result, ncalls>>

\* ----------------------------------------------------------- file hooks
\* _VerifyIsNewChangeset
_VerifyIsNewChangeset(h) == changeset_ent(h).status = CHANGESET_NEW

\* A call of client c with Changeset object h ends with an exception.
Raise(c, h, err) ==
  /\ result' = err
  /\ held' = Loaded(h)
  /\ UNCHANGED <<counter, changesets, created_by, files, index, fileVersions,
                 changeset_created_by, pointers, locals>>

\* Mutant of _CopyFilesFromRoot: the current revision is copied whenever
\* there is one, over a live staged copy too.
_CopyFilesFromRootAlways(p, num) ==
  LET root_file == Get(p)
      versioned_file == GetIn(p, num)
  IN  IF root_file # NoFile THEN root_file ELSE versioned_file

\* Mutant of _CopyFilesFromRoot: a staged copy marked deleted is not replaced.
_CopyFilesFromRootIfAbsent(p, num) ==
  LET root_file == Get(p)
      versioned_file == GetIn(p, num)
  IN  IF root_file # NoFile /\ versioned_file = NoFile
      THEN root_file
      ELSE versioned_file

\* _CopyFilesFromRoot: the staged file after branching the current revision.
_CopyFilesFromRoot(p, num) ==
  LET root_file == Get(p)
      versioned_file == GetIn(p, num)
  IN  IF root_file # NoFile
         /\ (versioned_file = NoFile \/ versioned_file.status = FILE_DELETED)
      THEN root_file
      ELSE versioned_file

\* Mutant of WriteDelete: the content is not forced to be empty.
WriteDeleteKeepsContent(c, h, p) ==
  /\ pc[c] = "idle"
  /\ Call
  /\ IF ~_VerifyIsNewChangeset(h)
     THEN Raise(c, h, "ChangesetError")
     ELSE /\ MayLag(_MakeVersionedPaths(p, h.num))
          /\ files' = [files EXCEPT ![_MakeVersionedPaths(p, h.num)] =
                         [status |-> FILE_DELETED, content |-> "x"]]
          /\ held' = Loaded(h)
          /\ result' = "ok"
          /\ UNCHANGED <<counter, changesets, created_by, index, fileVersions,
                         changeset_created_by, pointers, locals>>

\* HookForWrite.Pre with delete=True, then the write of the tombstone.
WriteDelete(c, h, p) ==
  /\ pc[c] = "idle"
  /\ Call
  /\ IF ~_VerifyIsNewChangeset(h)
     THEN Raise(c, h, "ChangesetError")
     ELSE /\ MayLag(_MakeVersionedPaths(p, h.num))
          /\ files' = [files EXCEPT ![_MakeVersionedPaths(p, h.num)] =
                         [status |-> FILE_DELETED, content |-> ""]]
          /\ held' = Loaded(h)
          /\ result' = "ok"
          /\ UNCHANGED <<counter, changesets, created_by, index, fileVersions,
                         changeset_created_by, pointers, locals>>

\* HookForWrite.Pre with delete=False: verify, then branch from the root.
WritePre(c, h, p) ==
  /\ pc[c] = "idle"
  /\ Call
  /\ IF ~_VerifyIsNewChangeset(h)
     THEN Raise(c, h, "ChangesetError")
     ELSE /\ MayLag(_MakeVersionedPaths(p, h.num))
          /\ files' = [files EXCEPT ![_MakeVersionedPaths(p, h.num)] =
                         _CopyFilesFromRoot(p, h.num)]
          /\ held' = Loaded(h)
          /\ pc' = [pc EXCEPT ![c] = "write"]
          /\ handle' = [handle EXCEPT ![c] = h]
          /\ wpath' = [wpath EXCEPT ![c] = p]
          /\ result' = "none"
          /\ UNCHANGED <<counter, changesets, created_by, index, fileVersions,
                         changeset_created_by, pointers, staged_file_objs,
                         final_changeset>>

\* The inner files.Write at the versioned path with meta.status = edited.
\* content = "keep" is a write that supplies no content (metadata only); it
\* is issued only on a file that exists.
WriteInner(c, content) ==
  /\ pc[c] = "write"
  /\ LET vp == _MakeVersionedPaths(wpath[c], handle[c].num)
     IN  /\ MayLag(vp)
         /\ content = "keep" => files[vp] # NoFile
         /\ files' = [files EXCEPT ![vp] =
               [status |-> FILE_EDITED,
                content |-> IF content = "keep" THEN files[vp].content ELSE content]]
  /\ pc' = [pc EXCEPT ![c] = "idle"]
  /\ handle' = [handle EXCEPT ![c] = NoHandle]
  /\ wpath' = [wpath EXCEPT ![c] = "none"]
  /\ result' = "ok"
  /\ UNCHANGED <<counter, changesets, created_by, index, fileVersions,
                 changeset_created_by, pointers, held, staged_file_objs,
                 final_changeset, ncalls>>

\* HookForTouch.Pre: verify, then branch from the root.
TouchPre(c, h, p) ==
  /\ pc[c] = "idle"
  /\ Call
  /\ IF ~_VerifyIsNewChangeset(h)
     THEN Raise(c, h, "ChangesetError")
     ELSE /\ MayLag(_MakeVersionedPaths(p, h.num))
          /\ files' = [files EXCEPT ![_MakeVersionedPaths(p, h.num)] =
                         _CopyFilesFromRoot(p, h.num)]
          /\ held' = Loaded(h)
          /\ pc' = [pc EXCEPT ![c] = "touch"]
          /\ handle' = [handle EXCEPT ![c] = h]
          /\ wpath' = [wpath EXCEPT ![c] = p]
          /\ result' = "none"
          /\ UNCHANGED <<counter, changesets, created_by, index, fileVersions,
                         changeset_created_by, pointers, staged_file_objs,
                         final_changeset>>

\* files.Touch of the primitive store: an absent file is created empty, the
\* content of an existing one is kept.
FilesTouch(file) ==
  IF file = NoFile THEN [status |-> "none", content |-> ""] ELSE file

\* The inner files.Touch at the versioned path with meta.status = edited.
TouchInner(c) ==
  /\ pc[c] = "touch"
  /\ LET vp == _MakeVersionedPaths(wpath[c], handle[c].num)
     IN  /\ MayLag(vp)
         /\ files' = [files EXCEPT ![vp] =
               [status |-> FILE_EDITED, content |-> FilesTouch(files[vp]).content]]
  /\ pc' = [pc EXCEPT ![c] = "idle"]
  /\ handle' = [handle EXCEPT ![c] = NoHandle]
  /\ wpath' = [wpath EXCEPT ![c] = "none"]
  /\ result' = "ok"
  /\ UNCHANGED <<counter, changesets, created_by, index, fileVersions,
                 changeset_created_by, pointers, held, staged_file_objs,
                 final_changeset, ncalls>>

\* HookForDelete.Pre, then the delete of the staged copy (a revert).
Delete(c, h, p) ==
  /\ pc[c] = "idle"
  /\ Call
  /\ files[_MakeVersionedPaths(p, h.num)] # NoFile
  /\ IF ~_VerifyIsNewChangeset(h)
     THEN Raise(c, h, "ChangesetError")
     ELSE /\ MayLag(_MakeVersionedPaths(p, h.num))
          /\ files' = [files EXCEPT ![_MakeVersionedPaths(p, h.num)] = NoFile]
          /\ held' = Loaded(h)
          /\ result' = "ok"
          /\ UNCHANGED <<counter, changesets, created_by, index, fileVersions,
                         changeset_created_by, pointers, locals>>

\* ----------------------------------------------------------------- Commit
\* Commit, lines 579-585: list the staged files, check them and the status.
CommitCheck(c, h) ==
  /\ pc[c] = "idle"
  /\ Call
  /\ LET listing == GetFiles(h)
     IN  IF ListedPaths(listing) = {}
         THEN Raise(c, h, "CommitError")
         ELSE IF changeset_ent(h).status # CHANGESET_NEW
         THEN Raise(c, h, "CommitError")
         ELSE /\ staged_file_objs' = [staged_file_objs EXCEPT ![c] = listing]
              /\ held' = Loaded(h)
              /\ pc' = [pc EXCEPT ![c] = "commit"]
              /\ handle' = [handle EXCEPT ![c] = h]
              /\ result' = "none"
              /\ UNCHANGED <<counter, changesets, created_by, files, index,
                             fileVersions, changeset_created_by, pointers,
                             final_changeset, wpath>>

\* Mutant of CommitNewChangeset: the final changeset is created twice and
\* the second one is used.
CommitNewChangesetTwice(c) ==
  /\ pc[c] = "commit"
  /\ counter + 1 < (IF microversions THEN MaxMvNum ELSE MaxNum)
  /\ counter' = counter + 2
  /\ changesets' = [changesets EXCEPT
        ![counter + 1] = [status |-> CHANGESET_PRE_SUBMIT, linked |-> 0],
        ![counter + 2] = [status |-> CHANGESET_PRE_SUBMIT, linked |-> 0]]
  /\ created_by' = [created_by EXCEPT
        ![counter + 1] = NewCreatedBy(created_by[handle[c].num], user[c]),
        ![counter + 2] = NewCreatedBy(created_by[handle[c].num], user[c])]
  /\ final_changeset' = [final_changeset EXCEPT ![c] = counter']
  /\ pc' = [pc EXCEPT ![c] = "transaction"]
  /\ UNCHANGED <<files, index, fileVersions, changeset_created_by, pointers,
                 held, handle, staged_file_objs, wpath, result, ncalls>>

\* Commit, lines 590-591: the final changeset, created as pre-submit with
\* created_by=staged_changeset.created_by.
CommitNewChangeset(c) ==
  /\ pc[c] = "commit"
  /\ _NewChangeset(CHANGESET_PRE_SUBMIT, created_by[handle[c].num], user[c])
  /\ final_changeset' = [final_changeset EXCEPT ![c] = counter']
  /\ pc' = [pc EXCEPT ![c] = "transaction"]
  /\ UNCHANGED <<files, index, fileVersions, changeset_created_by, pointers,
                 held, handle, staged_file_objs, wpath, result, ncalls>>

\* Mutant of FileVersionStatus: "edited" is never turned into "created".
FileVersionStatusAsStaged(listing, ptrs, p) == listing[p]

\* Mutant of FileVersionStatus: a path without a pointer is recorded as
\* created whatever its staged status.
FileVersionStatusNoPointer(listing, ptrs, p) ==
  IF ptrs[p] = 0 THEN FILE_CREATED ELSE listing[p]

\* _Commit, lines 638-641: the status recorded for a staged path.
FileVersionStatus(listing, ptrs, p) ==
  IF listing[p] = FILE_EDITED /\ ptrs[p] = 0 THEN FILE_CREATED ELSE listing[p]

\* _Commit, lines 643-651: the rows of one commit.
NewFileVersions(listing, ptrs, final) ==
  LET listed == SelectSeq(PathSeq, LAMBDA p : listing[p] # "none")
  IN  [i \in 1..Len(listed) |->
         [changeset_num |-> final, path |-> listed[i],
          status |-> FileVersionStatus(listing, ptrs, listed[i])]]

\* _Commit, line 648: changeset_created_by of the rows of one commit, the
\* created_by of the final changeset.
NewChangesetCreatedBy(listing, final_created_by) ==
  [i \in 1..Cardinality(ListedPaths(listing)) |-> final_created_by]

\* Mutant of NewFilePointers: an existing pointer is not moved.
NewFilePointersKeepOld(listing, ptrs, staged) ==
  [p \in Paths |->
     IF listing[p] = "none" THEN ptrs[p]
     ELSE IF FileVersionStatus(listing, ptrs, p) = FILE_DELETED THEN 0
     ELSE IF ptrs[p] # 0 THEN ptrs[p]
     ELSE staged]

\* Mutant of NewFilePointers: the pointer of a deleted path is not deleted.
NewFilePointersNoDelete(listing, ptrs, staged) ==
  [p \in Paths |->
     IF listing[p] = "none" THEN ptrs[p]
     ELSE IF FileVersionStatus(listing, ptrs, p) = FILE_DELETED THEN ptrs[p]
     ELSE staged]

\* Mutant of NewFilePointers: every listed path gets a pointer, deleted or not.
NewFilePointersAlwaysPut(listing, ptrs, staged) ==
  [p \in Paths |-> IF listing[p] = "none" THEN ptrs[p] ELSE staged]

\* _Commit, lines 653-677: the pointer table after the puts and deletes.
NewFilePointers(listing, ptrs, staged) ==
  [p \in Paths |->
     IF listing[p] = "none" THEN ptrs[p]
     ELSE IF FileVersionStatus(listing, ptrs, p) = FILE_DELETED THEN 0
     ELSE staged]

\* Mutant of NewChangesetEnts: the final changeset is not linked back.
NewChangesetEntsNoBackLink(ents, staged, final) ==
  [ents EXCEPT
     ![staged] = [status |-> CHANGESET_DELETED_BY_SUBMIT, linked |-> final],
     ![final] = [status |-> CHANGESET_SUBMITTED, linked |-> 0]]

\* Mutant of NewChangesetEnts: the staging changeset is marked deleted.
NewChangesetEntsDeleted(ents, staged, final) ==
  [ents EXCEPT
     ![staged] = [status |-> CHANGESET_DELETED, linked |-> final],
     ![final] = [status |-> CHANGESET_SUBMITTED, linked |-> staged]]

\* _Commit, lines 614-621: the two changeset entities after the put.
NewChangesetEnts(ents, staged, final) ==
  [ents EXCEPT
     ![staged] = [status |-> CHANGESET_DELETED_BY_SUBMIT, linked |-> final],
     ![final] = [status |-> CHANGESET_SUBMITTED, linked |-> staged]]

\* The cached entities after _Commit modified them in memory (lines 615-620):
\* the staging object's, when it is a long-lived one.
CommitCaches(h, final) ==
  IF h.kind = "held"
  THEN [held EXCEPT ![h.num] =
          [status |-> CHANGESET_DELETED_BY_SUBMIT, linked |-> final]]
  ELSE held

\* Mutant of _Commit: no transaction, and the run stops after the put of the
\* two changeset entities.
_CommitStatusesOnly(c) ==
  /\ pc[c] = "transaction"
  /\ changesets' = NewChangesetEnts(changesets, handle[c].num, final_changeset[c])
  /\ held' = CommitCaches(handle[c], final_changeset[c])
  /\ pc' = [pc EXCEPT ![c] = "idle"]
  /\ handle' = [handle EXCEPT ![c] = NoHandle]
  /\ staged_file_objs' = [staged_file_objs EXCEPT ![c] = NoListing]
  /\ final_changeset' = [final_changeset EXCEPT ![c] = 0]
  /\ result' = "ok"
  /\ UNCHANGED <<counter, created_by, files, index, fileVersions,
                 changeset_created_by, pointers, wpath, ncalls>>

\* _Commit run by db.run_in_transaction_options: one atomic step.
_Commit(c) ==
  /\ pc[c] = "transaction"
  /\ changesets' = NewChangesetEnts(changesets, handle[c].num, final_changeset[c])
  /\ fileVersions' = fileVersions \o
        NewFileVersions(staged_file_objs[c], pointers, final_changeset[c])
  /\ changeset_created_by' = changeset_created_by \o
        NewChangesetCreatedBy(staged_file_objs[c], created_by[final_changeset[c]])
  /\ pointers' = NewFilePointers(staged_file_objs[c], pointers, handle[c].num)
  /\ held' = CommitCaches(handle[c], final_changeset[c])
  /\ pc' = [pc EXCEPT ![c] = "idle"]
  /\ handle' = [handle EXCEPT ![c] = NoHandle]
  /\ staged_file_objs' = [staged_file_objs EXCEPT ![c] = NoListing]
  /\ final_changeset' = [final_changeset EXCEPT ![c] = 0]
  /\ result' = "ok"
  /\ UNCHANGED <<counter, created_by, files, index, wpath, ncalls>>

\* The transaction fails for good: nothing is stored, but the entity cached
\* in the staging object was already modified in memory (lines 615-620).
CommitAbort(c) ==
  /\ pc[c] = "transaction"
  /\ held' = CommitCaches(handle[c], final_changeset[c])
  /\ pc' = [pc EXCEPT ![c] = "idle"]
  /\ handle' = [handle EXCEPT ![c] = NoHandle]
  /\ staged_file_objs' = [staged_file_objs EXCEPT ![c] = NoListing]
  /\ final_changeset' = [final_changeset EXCEPT ![c] = 0]
  /\ result' = "TransactionFailedError"
  /\ UNCHANGED <<counter, changesets, created_by, files, index, fileVersions,
                 changeset_created_by, pointers, wpath, ncalls>>

\* ---------------------------------------------------------- microversions
\* The tasks completed so far: one submitted changeset each.
Completed ==
  Cardinality({n \in 1..counter : changesets[n].status = CHANGESET_SUBMITTED})

\* One more operation on the root tree fits the bound.
MayIssue == Len(issued) < MaxTasks

\* After wasting n more changeset numbers, a pair of numbers is still left
\* for every task up to MaxTasks.
MayWaste(n) == MaxMvNum - (counter + n) >= 2 * (MaxTasks - Completed)

\* A deferred task: the operation, its path and, for a write, the content or
\* the blob reference given to the write.
NewTask(op, p, content) == [op |-> op, path |-> p, content |-> content]

\* files.Write of the primitive store on the root tree: the file as written.
RootFile(content) == [status |-> NO_STATUS, content |-> content]

\* Mutant of Enqueue: the task is added twice.
EnqueueTwice(task) == Append(Append(queue, task), task)

\* The task is added at the end of the microversions queue.
Enqueue(task) == Append(queue, task)

\* Mutant of BlobsAfterWrite: the blob a file no longer references is
\* deleted with the write, as the primitive store does on its own.
BlobsAfterWriteDeleteOld(p, content) ==
  IF root[p].content \in BlobKeys /\ root[p].content # content
  THEN blobs \ {root[p].content}
  ELSE blobs

\* The blobstore after a write or delete at root path p: the blob of the
\* replaced file is kept.
BlobsAfterWrite(p, content) == blobs

\* files.Write without a changeset: written to the root tree, and a task is
\* deferred.
RootWrite(p, content) ==
  /\ microversions
  /\ MayIssue
  /\ root' = [root EXCEPT ![p] = RootFile(content)]
  /\ blobs' = BlobsAfterWrite(p, content)
  /\ queue' = Enqueue(NewTask("write", p, content))
  /\ issued' = Append(issued, NewTask("write", p, content))
  /\ UNCHANGED <<counter, changesets, created_by, files, index, fileVersions,
                 changeset_created_by, pointers, held, locals, result, ncalls,
                 microversions, worker, httpstate, user>>

\* files.Write without a changeset of a content over the size limit of a
\* task: written to the root tree, and the task is dropped.
RootWriteLarge(p) ==
  /\ microversions
  /\ MayIssue
  /\ root' = [root EXCEPT ![p] = RootFile(LARGE_FILE_CONTENT)]
  /\ issued' = Append(issued, NewTask("write", p, LARGE_FILE_CONTENT))
  /\ blobs' = BlobsAfterWrite(p, LARGE_FILE_CONTENT)
  /\ UNCHANGED <<counter, changesets, created_by, files, index, fileVersions,
                 changeset_created_by, pointers, held, locals, result, ncalls,
                 microversions, queue, worker, httpstate, user>>

\* files.Touch without a changeset.
RootTouch(p) ==
  /\ microversions
  /\ MayIssue
  /\ root' = [root EXCEPT ![p] = RootFile(FilesTouch(root[p]).content)]
  /\ queue' = Enqueue(NewTask("touch", p, ""))
  /\ issued' = Append(issued, NewTask("touch", p, ""))
  /\ UNCHANGED <<counter, changesets, created_by, files, index, fileVersions,
                 changeset_created_by, pointers, held, locals, result, ncalls,
                 microversions, worker, blobs, httpstate, user>>

\* files.Delete without a changeset, of an existing root file.
RootDelete(p) ==
  /\ microversions
  /\ MayIssue
  /\ root[p] # NoFile
  /\ root' = [root EXCEPT ![p] = NoFile]
  /\ blobs' = BlobsAfterWrite(p, "")
  /\ queue' = Enqueue(NewTask("delete", p, ""))
  /\ issued' = Append(issued, NewTask("delete", p, ""))
  /\ UNCHANGED <<counter, changesets, created_by, files, index, fileVersions,
                 changeset_created_by, pointers, held, locals, result, ncalls,
                 microversions, worker, httpstate, user>>

\* The client identity under which the deferred worker calls the service.
Worker == "c1"

\* The Changeset object the worker got from NewStagingChangeset.
WorkerChangeset == [num |-> worker.num, kind |-> "held"]

\* _CommitMicroversion, first step: the oldest task is run and gets a new
\* staging changeset.
MvNewStagingChangeset ==
  /\ microversions
  /\ worker = NoTask
  /\ queue # <<>>
  /\ NewStagingChangeset(Worker, user[Worker])
  /\ worker' = [step |-> "staged", num |-> counter']
  /\ UNCHANGED <<microversions, root, queue, blobs, issued, httpstate, user>>

\* _CommitMicroversion of a write: files.Write(path, content, changeset),
\* up to the copy from the root tree in the hook of the versions service.
MvWritePre ==
  /\ worker.step = "staged"
  /\ Head(queue).op = "write"
  /\ WritePre(Worker, WorkerChangeset, Head(queue).path)
  /\ UNCHANGED <<mvstate, httpstate, user>>

\* _CommitMicroversion of a write: the write at the versioned path.
MvWriteInner ==
  /\ worker.step = "staged"
  /\ pc[Worker] = "write"
  /\ WriteInner(Worker, Head(queue).content)
  /\ worker' = [worker EXCEPT !.step = "applied"]
  /\ UNCHANGED <<microversions, root, queue, blobs, issued, httpstate, user>>

\* _CommitMicroversion of a touch: files.Touch(path, changeset), up to the
\* copy from the root tree.
MvTouchPre ==
  /\ worker.step = "staged"
  /\ Head(queue).op = "touch"
  /\ TouchPre(Worker, WorkerChangeset, Head(queue).path)
  /\ UNCHANGED <<mvstate, httpstate, user>>

\* _CommitMicroversion of a touch: the touch at the versioned path.
MvTouchInner ==
  /\ worker.step = "staged"
  /\ TouchInner(Worker)
  /\ worker' = [worker EXCEPT !.step = "applied"]
  /\ UNCHANGED <<microversions, root, queue, blobs, issued, httpstate, user>>

\* _CommitMicroversion of a delete: files.Write(path, delete=True,
\* changeset).
MvWriteDelete ==
  /\ worker.step = "staged"
  /\ pc[Worker] = "idle"
  /\ Head(queue).op = "delete"
  /\ WriteDelete(Worker, WorkerChangeset, Head(queue).path)
  /\ worker' = [worker EXCEPT !.step = "applied"]
  /\ UNCHANGED <<microversions, root, queue, blobs, issued, httpstate, user>>

\* VersionedFile.status of each file the commit lists can be read: the meta
\* of the file has a status.
StatusesReadable(listing) ==
  \A p \in Paths : listing[p] \in {"none", FILE_EDITED, FILE_DELETED}

\* _CommitMicroversion, the call of Commit: the checks. When they raise,
\* the task fails and stays in the queue to be retried.
MvCommitCheck ==
  /\ worker.step = "applied"
  /\ LET listing == GetFiles(WorkerChangeset)
     IN  \/ ListedPaths(listing) # {} /\ StatusesReadable(listing)
         \/ ListedPaths(listing) # {} /\ MayWaste(1)
         \/ ListedPaths(listing) = {} /\ MayWaste(0)
  /\ CommitCheck(Worker, WorkerChangeset)
  /\ worker' = IF result' = "CommitError" THEN NoTask
               ELSE [worker EXCEPT !.step = "commit"]
  /\ UNCHANGED <<microversions, root, queue, blobs, issued, httpstate, user>>

\* _CommitMicroversion, Commit: the final changeset.
MvCommitNewChangeset ==
  /\ worker.step = "commit"
  /\ CommitNewChangeset(Worker)
  /\ UNCHANGED <<mvstate, httpstate, user>>

\* _CommitMicroversion, Commit: the transaction. The task is done and leaves
\* the queue.
MvCommit ==
  /\ worker.step = "commit"
  /\ StatusesReadable(staged_file_objs[Worker])
  /\ _Commit(Worker)
  /\ queue' = Tail(queue)
  /\ worker' = NoTask
  /\ UNCHANGED <<microversions, root, blobs, issued, httpstate, user>>

\* _CommitMicroversion, Commit: the transaction raises at a file whose
\* status cannot be read. The task fails and stays in the queue.
MvCommitFailed ==
  /\ worker.step = "commit"
  /\ ~StatusesReadable(staged_file_objs[Worker])
  /\ CommitAbort(Worker)
  /\ worker' = NoTask
  /\ UNCHANGED <<microversions, root, queue, blobs, issued, httpstate, user>>

\* ---------------------------------------------------------- HTTP handlers
\* ChangesetHandler.post: a new staging changeset, answered 201.
ChangesetHandlerPost(c) ==
  /\ NewStagingChangeset(c, NoUser)
  /\ request' = [request EXCEPT ![c] =
                   NewRequest(request[c].id + 1, 0, NoRequest.force,
                              NoRequest.manifest)]
  /\ response' = [response EXCEPT ![c] = [status |-> 201, num |-> counter']]
  /\ UNCHANGED user

\* Line 58: bool(self.request.get('force', False)).
Force(param) == param \notin {"absent", ""}

\* Line 59: the truth value of self.request.POST.get('manifest', None).
Manifest(param) == param.text \notin {"absent", ""}

\* Mutant of BadRequest: only a request with neither parameter is refused.
BadRequestNeither(force, manifest) == ~force /\ ~manifest

\* Line 60: the request is refused.
BadRequest(force, manifest) == (~force /\ ~manifest) \/ (force /\ manifest)

\* The files of a changeset whose paths were associated with it and
\* finalized: a lookup by key of each path of the manifest.
AssociatedFiles(h, manifest) ==
  [p \in Paths |-> IF p \in manifest THEN GetIn(p, h.num).status ELSE "none"]

\* Commit of a changeset with finalized associated files: the checks of
\* Commit on the files of the manifest.
CommitAssociated(c, h, manifest) ==
  /\ pc[c] = "idle"
  /\ Call
  /\ LET listing == AssociatedFiles(h, manifest)
     IN  IF ListedPaths(listing) = {}
         THEN Raise(c, h, "CommitError")
         ELSE IF changeset_ent(h).status # CHANGESET_NEW
         THEN Raise(c, h, "CommitError")
         ELSE /\ staged_file_objs' = [staged_file_objs EXCEPT ![c] = listing]
              /\ held' = Loaded(h)
              /\ pc' = [pc EXCEPT ![c] = "commit"]
              /\ handle' = [handle EXCEPT ![c] = h]
              /\ result' = "none"
              /\ UNCHANGED <<counter, changesets, created_by, files, index,
                             fileVersions, changeset_created_by, pointers,
                             final_changeset, wpath>>

\* ChangesetCommitHandler.post, lines 55-73: the parameters are read and
\* checked, and Commit is entered. An exception of Commit is none of those
\* the handler catches, and the application answers it with 500.
ChangesetCommitHandlerPost(c, num, force, manifest) ==
  LET staging_changeset == [num |-> num, kind |-> "fresh"]
  IN  /\ request' = [request EXCEPT ![c] =
                       NewRequest(request[c].id + 1, num, force, manifest)]
      /\ UNCHANGED user
      /\ IF BadRequest(Force(force), Manifest(manifest))
         THEN /\ pc[c] = "idle"
              /\ Call
              /\ response' = [response EXCEPT ![c] = [status |-> 400, num |-> 0]]
              /\ UNCHANGED <<counter, changesets, created_by, files, index,
                             fileVersions, changeset_created_by, pointers,
                             held, locals, result>>
         ELSE /\ IF Manifest(manifest)
                 THEN CommitAssociated(c, staging_changeset, manifest.paths)
                 ELSE CommitCheck(c, staging_changeset)
              /\ response' = [response EXCEPT ![c] =
                                IF result' = "CommitError"
                                THEN [status |-> 500, num |-> 0]
                                ELSE NoResponse]

\* ChangesetCommitHandler.post, lines 73-75: Commit returned, answered 201
\* with the final changeset.
ChangesetCommitHandlerDone(c) ==
  /\ _Commit(c)
  /\ response' = [response EXCEPT ![c] =
                    [status |-> 201, num |-> final_changeset[c]]]
  /\ UNCHANGED <<request, user>>

\* ChangesetCommitHandler.post: the transaction of Commit failed.
ChangesetCommitHandlerFailed(c) ==
  /\ CommitAbort(c)
  /\ response' = [response EXCEPT ![c] = [status |-> 500, num |-> 0]]
  /\ UNCHANGED <<request, user>>

\* The clients that use the service over HTTP.
HttpClients == {"c1"}

\* The Changeset objects of requests: built from the number in the request.
RequestHandles == {h \in Handles : h.kind = "fresh"}

\* ------------------------------------------------------------------- Next
\* The calls of clients that use the versions service alone.
Next ==
  \/ \E c \in Clients : NewStagingChangeset(c, NoUser) /\ UNCHANGED extensions
  \/ \E vp \in VersionedPaths : ApplyIndex(vp) /\ UNCHANGED extensions
  \/ \E c \in Clients, h \in Handles, p \in Paths :
       WriteDelete(c, h, p) /\ UNCHANGED extensions
  \/ \E c \in Clients, h \in Handles, p \in Paths :
       WritePre(c, h, p) /\ UNCHANGED extensions
  \/ \E c \in Clients, content \in Contents \cup {"keep"} :
       WriteInner(c, content) /\ UNCHANGED extensions
  \/ \E c \in Clients, h \in Handles, p \in Paths :
       TouchPre(c, h, p) /\ UNCHANGED extensions
  \/ \E c \in Clients : TouchInner(c) /\ UNCHANGED extensions
  \/ \E c \in Clients, h \in Handles, p \in Paths :
       Delete(c, h, p) /\ UNCHANGED extensions
  \/ \E c \in Clients, h \in Handles : CommitCheck(c, h) /\ UNCHANGED extensions
  \/ \E c \in Clients : CommitNewChangeset(c) /\ UNCHANGED extensions
  \/ \E c \in Clients : _Commit(c) /\ UNCHANGED extensions
  \/ \E c \in Clients : CommitAbort(c) /\ UNCHANGED extensions

Spec == Init /\ [][Next]_vars

\* The operations of clients on the root tree and the steps of the deferred
\* worker, with the microversions service enabled.
MvNext ==
  \/ \E p \in MvPaths, content \in MvContents : RootWrite(p, content)
  \/ \E p \in MvPaths : RootWriteLarge(p)
  \/ \E p \in MvPaths : RootTouch(p)
  \/ \E p \in MvPaths : RootDelete(p)
  \/ MvNewStagingChangeset
  \/ MvWritePre
  \/ MvWriteInner
  \/ MvTouchPre
  \/ MvTouchInner
  \/ MvWriteDelete
  \/ MvCommitCheck
  \/ MvCommitNewChangeset
  \/ MvCommit
  \/ MvCommitFailed
  \/ \E vp \in VersionedPaths : ApplyIndex(vp) /\ UNCHANGED extensions

MvSpec == MvInit /\ [][MvNext]_vars

\* A step of the deferred worker.
WorkerNext ==
  \/ MvNewStagingChangeset
  \/ MvWritePre
  \/ MvWriteInner
  \/ MvTouchPre
  \/ MvTouchInner
  \/ MvWriteDelete
  \/ MvCommitCheck
  \/ MvCommitNewChangeset
  \/ MvCommit
  \/ MvCommitFailed

\* The file query catches up with the store.
IndexNext == \E vp \in VersionedPaths : ApplyIndex(vp) /\ UNCHANGED extensions

\* The task queue keeps running the worker while a task is queued, and the
\* file query is eventually consistent.
MvFairSpec == MvSpec /\ WF_vars(WorkerNext) /\ WF_vars(IndexNext)

\* The requests of clients that use the service over HTTP.
HttpNext ==
  \/ \E c \in HttpClients : ChangesetHandlerPost(c) /\ UNCHANGED mvstate
  \/ \E c \in HttpClients, num \in 1..counter, force \in ForceParams,
        manifest \in ManifestParams :
       ChangesetCommitHandlerPost(c, num, force, manifest) /\ UNCHANGED mvstate
  \/ \E c \in HttpClients : CommitNewChangeset(c) /\ UNCHANGED extensions
  \/ \E c \in HttpClients : ChangesetCommitHandlerDone(c) /\ UNCHANGED mvstate
  \/ \E c \in HttpClients :
       ChangesetCommitHandlerFailed(c) /\ UNCHANGED mvstate
  \/ \E vp \in VersionedPaths : ApplyIndex(vp) /\ UNCHANGED extensions
  \/ \E c \in HttpClients, h \in RequestHandles, p \in Paths :
       WriteDelete(c, h, p) /\ UNCHANGED extensions
  \/ \E c \in HttpClients, h \in RequestHandles, p \in Paths :
       WritePre(c, h, p) /\ UNCHANGED extensions
  \/ \E c \in HttpClients, content \in Contents \cup {"keep"} :
       WriteInner(c, content) /\ UNCHANGED extensions

HttpSpec == Init /\ [][HttpNext]_vars

\* Another user, or nobody, is logged in for the next requests of client c.
Login(c, u) ==
  /\ pc[c] = "idle"
  /\ u # user[c]
  /\ user' = [user EXCEPT ![c] = u]
  /\ UNCHANGED <<counter, changesets, created_by, files, index, fileVersions,
                 changeset_created_by, pointers, held, locals, result, ncalls,
                 mvstate, httpstate>>

\* The clients whose user changes between requests.
UserClients == {"c1"}

\* The calls of a client whose requests come from changing users, with and
\* without the created_by argument of NewStagingChangeset.
UserNext ==
  \/ \E c \in UserClients, u \in Users \cup {NoUser} : Login(c, u)
  \/ \E c \in UserClients, by \in Users \cup {NoUser} :
       NewStagingChangeset(c, by) /\ UNCHANGED extensions
  \/ \E vp \in VersionedPaths : ApplyIndex(vp) /\ UNCHANGED extensions
  \/ \E c \in UserClients, h \in RequestHandles, p \in Paths :
       WriteDelete(c, h, p) /\ UNCHANGED extensions
  \/ \E c \in UserClients, h \in RequestHandles, p \in Paths :
       WritePre(c, h, p) /\ UNCHANGED extensions
  \/ \E c \in UserClients, content \in Contents \cup {"keep"} :
       WriteInner(c, content) /\ UNCHANGED extensions
  \/ \E c \in UserClients, h \in RequestHandles :
       CommitCheck(c, h) /\ UNCHANGED extensions
  \/ \E c \in UserClients : CommitNewChangeset(c) /\ UNCHANGED extensions
  \/ \E c \in UserClients : _Commit(c) /\ UNCHANGED extensions
  \/ \E c \in UserClients : CommitAbort(c) /\ UNCHANGED extensions

UserSpec == Init /\ [][UserNext]_vars

\* ============================================================ properties
\* The step in which client c's commit transaction takes effect.
CommitStep(c) == pc[c] = "transaction" /\ pc'[c] = "idle" /\ result' = "ok"

\* The rows a step appends to the FileVersion table.
AddedFileVersions ==
  {fileVersions'[i] : i \in (Len(fileVersions) + 1)..Len(fileVersions')}

\* The step adds the FileVersion row of path p under changeset n, of status st.
Added(n, p, st) ==
  [changeset_num |-> n, path |-> p, status |-> st] \in AddedFileVersions

\* The newest FileVersion row of path p is of status st.
NewestIs(p, st) ==
  GetFileVersions(p) # <<>> /\ Head(GetFileVersions(p)).status = st

Tombstone == [status |-> FILE_DELETED, content |-> ""]

\* C1: a commit is atomic for readers. Every step that flips a changeset to
\* submitted or deleted-by-submit, adds a FileVersion row or changes a Pointer
\* row is the transaction of one Commit, and in that same step both statuses
\* are flipped, every listed path gets its FileVersion row and every listed
\* path gets its Pointer upsert or delete; no other path's Pointer changes.
C1_CommitAtomic ==
  [][ ( \/ fileVersions' # fileVersions
        \/ pointers' # pointers
        \/ \E n \in Nums :
              /\ changesets'[n] # changesets[n]
              /\ changesets'[n].status
                    \in {CHANGESET_SUBMITTED, CHANGESET_DELETED_BY_SUBMIT} )
      => \E c \in Clients :
           /\ CommitStep(c)
           /\ changesets'[handle[c].num].status = CHANGESET_DELETED_BY_SUBMIT
           /\ changesets'[final_changeset[c]].status = CHANGESET_SUBMITTED
           /\ \A p \in Paths :
                 IF staged_file_objs[c][p] = "none"
                 THEN /\ pointers'[p] = pointers[p]
                      /\ \A fv \in AddedFileVersions : fv.path # p
                 ELSE /\ \E fv \in AddedFileVersions :
                           fv.path = p /\ fv.changeset_num = final_changeset[c]
                      /\ pointers'[p] =
                           IF staged_file_objs[c][p] = FILE_DELETED
                           THEN 0 ELSE handle[c].num
           /\ Len(fileVersions') =
                 Len(fileVersions) + Cardinality(ListedPaths(staged_file_objs[c]))
           /\ SubSeq(fileVersions', 1, Len(fileVersions)) = fileVersions
    ]_vars

\* C1 witness: one commit of two staged paths has taken effect.
C1_Witness ==
  \E n \in Nums :
    /\ changesets[n].status = CHANGESET_DELETED_BY_SUBMIT
    /\ \A p \in Paths : pointers[p] = n
    /\ Len(fileVersions) = Cardinality(Paths)

\* C2: in the step in which Commit(s) succeeds with final changeset f, the
\* stored s is deleted-by-submit, the stored f is submitted, s is linked to f
\* and f to s, and the staging Changeset object the caller holds shows the same.
C2_CommitLinks ==
  [][ \A c \in Clients : CommitStep(c) =>
        LET s == handle[c].num
            f == final_changeset[c]
        IN  /\ changesets'[s].status = CHANGESET_DELETED_BY_SUBMIT
            /\ changesets'[f].status = CHANGESET_SUBMITTED
            /\ changesets'[s].linked = f
            /\ changesets'[f].linked = s
            /\ changesets'[changesets'[s].linked].linked = s
            /\ handle[c].kind = "held" => held'[s] = changesets'[s]
    ]_vars

\* C2 witness: a commit has succeeded and left a linked pair.
C2_Witness ==
  /\ result = "ok"
  /\ \E s, f \in Nums :
        /\ changesets[s] = [status |-> CHANGESET_DELETED_BY_SUBMIT, linked |-> f]
        /\ changesets[f] = [status |-> CHANGESET_SUBMITTED, linked |-> s]

\* C3: in the step in which Commit(s) succeeds with final changeset f, every
\* path recorded as created or edited has its Pointer at s (never at f), a
\* path recorded as created had no Pointer before, and Get(p) without a
\* changeset returns the file stored at the versioned path of p under s; and
\* a Pointer changes only in a commit that lists its path.
C3_PointerAfterCommit ==
  [][ /\ \A c \in Clients : CommitStep(c) =>
           /\ \A p \in ListedPaths(staged_file_objs[c]) :
                 \E fv \in AddedFileVersions : fv.path = p
           /\ \A p \in Paths, st \in {FILE_CREATED, FILE_EDITED} :
                 Added(final_changeset[c], p, st) =>
                   /\ pointers'[p] = handle[c].num
                   /\ pointers'[p] # final_changeset[c]
                   /\ st = FILE_CREATED => pointers[p] = 0
                   /\ Get(p)' = files'[<<handle[c].num, p>>]
      /\ \A p \in Paths : pointers'[p] # pointers[p] =>
           \E c \in Clients : CommitStep(c) /\ staged_file_objs[c][p] # "none"
    ]_vars

\* C3 witness: a path was committed as created and its Pointer names the
\* staging changeset whose copy Get returns.
C3_Witness ==
  \E p \in Paths :
    /\ NewestIs(p, FILE_CREATED)
    /\ pointers[p] # 0
    /\ changesets[pointers[p]].status = CHANGESET_DELETED_BY_SUBMIT
    /\ Get(p) = [status |-> FILE_EDITED, content |-> "x"]

\* C4: a commit that records a path as deleted makes that row the newest
\* entry of GetFileVersions; and as long as the newest FileVersion of a path
\* is of status deleted, the path has no Pointer, Exists without a changeset
\* is false and Get without a changeset returns nothing.
C4_DeletedIsGone ==
  [][ /\ \A c \in Clients : CommitStep(c) =>
           \A p \in Paths : Added(final_changeset[c], p, FILE_DELETED) =>
             /\ NewestIs(p, FILE_DELETED)'
             /\ Head(GetFileVersions(p))'.changeset_num = final_changeset[c]
      /\ \A p \in Paths : NewestIs(p, FILE_DELETED)' =>
           /\ pointers'[p] = 0
           /\ ~Exists(p)'
           /\ Get(p)' = NoFile
    ]_vars

\* C4 witness: a committed path was deleted by a later commit.
C4_Witness ==
  \E p \in Paths :
    /\ NewestIs(p, FILE_DELETED)
    /\ Len(GetFileVersions(p)) = 2
    /\ GetFileVersions(p)[2].status = FILE_CREATED

C6_NumbersIncrease ==
  [][ /\ counter' >= counter
      /\ counter' # counter =>
           changesets[counter'] = NoEnt /\ changesets'[counter'] # NoEnt
      /\ \A n \in Nums :
           /\ changesets[n] # NoEnt => changesets'[n] # NoEnt
           /\ (changesets[n] = NoEnt /\ changesets'[n] # NoEnt) =>
                /\ n = counter'
                /\ n > counter
                /\ \A m \in Nums : changesets[m] # NoEnt => m < n
    ]_vars

\* C6 witness: a commit failed after allocating a final number and a later
\* allocation received a greater number.
C6_Witness ==
  \E n, m \in Nums :
    /\ n < m
    /\ changesets[n].status = CHANGESET_PRE_SUBMIT
    /\ \A c \in Clients : final_changeset[c] # n
    /\ changesets[m] # NoEnt

\* C7 as stated: every submitted changeset has exactly one deleted-by-submit
\* sibling, the links are symmetric, and no two submitted changesets link to
\* the same staging changeset.
C7_SubmittedHasOneSibling ==
  \A f \in Nums : changesets[f].status = CHANGESET_SUBMITTED =>
    LET s == changesets[f].linked
    IN  /\ s \in Nums
        /\ changesets[s].status = CHANGESET_DELETED_BY_SUBMIT
        /\ changesets[s].linked = f
        /\ \A g \in Nums \ {f} :
              changesets[g].status = CHANGESET_SUBMITTED => changesets[g].linked # s

\* C8 as stated: a Commit called with a Changeset object whose stored status
\* is not new raises CommitError, so it never gets past its checks.
C8_CommitNeedsStoredNew ==
  [][ \A c \in Clients : (pc[c] = "idle" /\ pc'[c] = "commit") =>
        changesets[handle'[c].num].status = CHANGESET_NEW
    ]_vars

\* C9 as stated: a Commit of a staging changeset with no staged files raises
\* CommitError, so it never gets past its checks.
C9_CommitNeedsStagedFile ==
  [][ \A c \in Clients : (pc[c] = "idle" /\ pc'[c] = "commit") =>
        \E p \in Paths : files[<<handle'[c].num, p>>] # NoFile
    ]_vars

\* C10: a path has a Pointer exactly when it has a FileVersion and its newest
\* FileVersion is of status created or edited.
C10_PointerIffLive ==
  \A p \in Paths :
    pointers[p] # 0 <=> (NewestIs(p, FILE_CREATED) \/ NewestIs(p, FILE_EDITED))

\* C10 witness: one path is live with a Pointer while another was recorded as
\* deleted and has none.
C10_Witness ==
  \E p, q \in Paths :
    /\ pointers[p] # 0
    /\ NewestIs(p, FILE_CREATED)
    /\ pointers[q] = 0
    /\ NewestIs(q, FILE_DELETED)

\* The FileVersion row of path p stored under changeset n exists with a
\* status in sts.
HasFileVersion(n, p, sts) ==
  \E i \in 1..Len(fileVersions) :
    /\ fileVersions[i].changeset_num = n
    /\ fileVersions[i].path = p
    /\ fileVersions[i].status \in sts

\* C11 as stated: whenever the Pointer of p names changeset s, s is a
\* committed staging changeset (deleted-by-submit), a staged file exists at
\* the versioned path of p under s, and the FileVersion of p under the final
\* changeset linked to s is of status created or edited.
C11_PointerTargetExists ==
  \A p \in Paths : pointers[p] # 0 =>
    LET s == pointers[p]
    IN  /\ changesets[s].status = CHANGESET_DELETED_BY_SUBMIT
        /\ GetIn(p, s) # NoFile
        /\ HasFileVersion(changesets[s].linked, p, {FILE_CREATED, FILE_EDITED})

\* C12 as stated: for every FileVersion row of a submitted changeset f, a
\* staged file exists at the versioned path of the row's path under the
\* staging changeset linked to f.
C12_FileVersionHasStagedFile ==
  \A i \in 1..Len(fileVersions) :
    LET fv == fileVersions[i]
        f == fv.changeset_num
    IN  changesets[f].status = CHANGESET_SUBMITTED =>
          GetIn(fv.path, changesets[f].linked) # NoFile

\* C13 as stated: the entries of GetFileVersions(p) belong to distinct
\* submitted changesets, one per commit, and are in strictly descending order
\* of changeset_num.
C13_VersionsDescendByNum ==
  \A p \in Paths :
    LET v == GetFileVersions(p)
    IN  /\ \A i \in 1..Len(v) :
              changesets[v[i].changeset_num].status = CHANGESET_SUBMITTED
        /\ \A i \in 1..(Len(v) - 1) :
              v[i].changeset_num > v[i + 1].changeset_num

C15_WriteNeedsStoredNew ==
  [][ /\ \A c \in Clients : (pc[c] = "idle" /\ pc'[c] \in {"write", "touch"}) =>
           changesets[handle'[c].num].status = CHANGESET_NEW
      /\ \A vp \in VersionedPaths : files'[vp] # files[vp] =>
           changesets[vp[1]].status = CHANGESET_NEW
    ]_vars

\* C16 as stated: a Write or Touch issued with a staging changeset whose
\* stored status it found to be new (the Changeset object was loaded by the
\* call itself) changes no Pointer and no FileVersion row, and Exists(p) and
\* Get(p) without a changeset return the same before and after its write.
C16_UncommittedInvisible ==
  [][ \A c \in Clients :
        ( /\ pc[c] \in {"write", "touch"}
          /\ pc'[c] = "idle"
          /\ handle[c].kind = "fresh" ) =>
            /\ pointers' = pointers
            /\ fileVersions' = fileVersions
            /\ \A p \in Paths : Exists(p)' = Exists(p) /\ Get(p)' = Get(p)
    ]_vars

\* The step in which client c's commit transaction fails for good.
AbortStep(c) ==
  pc[c] = "transaction" /\ pc'[c] = "idle" /\ result' = "TransactionFailedError"

\* C17 as stated: when the transaction of Commit(s) aborts after the final
\* number f was allocated, f stays pre-submit (now and in every later step),
\* the stored s is untouched (still new and unlinked if it was), no
\* FileVersion row and no Pointer changes, and a retry of Commit by the
\* caller on s passes the status check: the caller's Changeset object still
\* shows the status new.
C17_AbortThenRetry ==
  [][ /\ \A c \in Clients : AbortStep(c) =>
           LET s == handle[c].num
               f == final_changeset[c]
           IN  /\ changesets' = changesets
               /\ changesets'[f] = [status |-> CHANGESET_PRE_SUBMIT, linked |-> 0]
               /\ fileVersions' = fileVersions
               /\ pointers' = pointers
               /\ (changesets[s].status = CHANGESET_NEW /\ handle[c].kind = "held")
                     => held'[s].status = CHANGESET_NEW
      /\ \A n \in Nums :
           ( /\ changesets[n].status = CHANGESET_PRE_SUBMIT
             /\ \A c \in Clients : final_changeset[c] # n )
           => changesets'[n] = changesets[n]
    ]_vars

\* Client d has a Commit of a staging changeset other than s in flight.
CommitInFlight(d, s) ==
  pc[d] \in {"commit", "transaction"} /\ handle[d].num # s

C19_BranchFromRoot ==
  [][ \A c \in Clients :
        /\ (pc[c] = "idle" /\ pc'[c] \in {"write", "touch"}) =>
              LET p == wpath'[c]
                  n == handle'[c].num
              IN  IF /\ Get(p) # NoFile
                     /\ (GetIn(p, n) = NoFile \/ GetIn(p, n).status = FILE_DELETED)
                  THEN /\ files'[<<n, p>>] = Get(p)
                       /\ files'[<<n, p>>].content = files[<<pointers[p], p>>].content
                  ELSE files'[<<n, p>>] = files[<<n, p>>]
        /\ (pc[c] \in {"write", "touch"} /\ pc'[c] = "idle") =>
              LET vp == <<handle[c].num, wpath[c]>>
              IN  /\ files'[vp].status = FILE_EDITED
                  /\ pc[c] = "touch" =>
                        files'[vp].content =
                          IF files[vp] = NoFile THEN "" ELSE files[vp].content
                  /\ pc[c] = "write" =>
                        files'[vp].content \in Contents \cup {files[vp].content}
        /\ CommitStep(c) => files' = files
    ]_vars

\* C19 witness: a Touch of a path with a current revision of content "x" is
\* between its hook and its inner call in a new changeset other than the one
\* the Pointer names, and the staged copy is the current revision.
C19_Witness ==
  \E c \in Clients :
    /\ pc[c] = "touch"
    /\ changesets[handle[c].num].status = CHANGESET_NEW
    /\ pointers[wpath[c]] \notin {0, handle[c].num}
    /\ Get(wpath[c]) = [status |-> FILE_EDITED, content |-> "x"]
    /\ GetIn(wpath[c], handle[c].num) = Get(wpath[c])

\* C20 as stated: a Commit sees every file written to its staging changeset
\* before it, however far the file query lags. A Commit raises CommitError
\* only if some changeset it can have been called with really has no staged
\* file or has a status (stored or cached) other than new; and a Commit that
\* passes its checks has listed every file stored under its staging
\* changeset, so none is left out of the FileVersion rows.
C20_CommitSeesRecentWrites ==
  [][ /\ (result' = "CommitError" /\ ncalls' # ncalls) =>
           \E n \in 1..counter :
             \/ \A p \in Paths : GetIn(p, n) = NoFile
             \/ changesets[n].status # CHANGESET_NEW
             \/ held[n].status \notin {CHANGESET_NEW, "none"}
      /\ \A c \in Clients : (pc[c] = "idle" /\ pc'[c] = "commit") =>
           \A p \in Paths : GetIn(p, handle'[c].num) # NoFile =>
             staged_file_objs'[c][p] # "none"
    ]_vars

\* The FileVersion status the rule of _Commit gives a staged file of status
\* st on a path whose pointer is ptr (0: no pointer).
EffectiveStatus(st, ptr) ==
  IF st = FILE_EDITED /\ ptr = 0 THEN FILE_CREATED
  ELSE IF st = FILE_DELETED THEN FILE_DELETED
  ELSE FILE_EDITED

\* C28: in the step of a commit's transaction, every file the commit holds
\* gets exactly one FileVersion row under the final changeset, of status
\* created if the file's status is edited and the path has no Pointer when the
\* transaction reads the table, deleted if the file's status is deleted, and
\* edited otherwise; a path with no file in the commit gets no row. A deleted
\* file on a path without a Pointer gets its row and the path still has no
\* Pointer after the step.
C28_StatusRule ==
  [][\A c \in Clients : CommitStep(c) =>
       \A p \in Paths :
         LET st == staged_file_objs[c][p]
             final == final_changeset[c]
         IN  \A fvs \in {FILE_CREATED, FILE_EDITED, FILE_DELETED} :
               /\ Added(final, p, fvs) <=>
                    (st # "none" /\ fvs = EffectiveStatus(st, pointers[p]))
               /\ (st = FILE_DELETED /\ pointers[p] = 0) => pointers'[p] = 0
    ]_vars

\* A commit has recorded a deleted row for a path that never had a Pointer,
\* and a created row and an edited row exist as well.
C28_Witness ==
  /\ \E i \in 1..Len(fileVersions) :
       /\ fileVersions[i].status = FILE_DELETED
       /\ pointers[fileVersions[i].path] = 0
       /\ \A j \in 1..Len(fileVersions) :
            fileVersions[j].path = fileVersions[i].path => j = i
  /\ \E i \in 1..Len(fileVersions) : fileVersions[i].status = FILE_CREATED
  /\ \E i \in 1..Len(fileVersions) : fileVersions[i].status = FILE_EDITED

\* C27: GetLastSubmittedChangeset raises ChangesetError exactly when no
\* changeset is submitted; otherwise it returns a submitted changeset and no
\* submitted changeset has a greater num.
C27_LastSubmitted ==
  LET last == GetLastSubmittedChangeset
      submitted == {n \in 1..counter :
                      changesets[n].status = CHANGESET_SUBMITTED}
  IN  /\ (last.error = "ChangesetError") <=> (submitted = {})
      /\ last.error \in {"ChangesetError", "none"}
      /\ last.error = "none" =>
            /\ last.num \in submitted
            /\ \A n \in submitted : n <= last.num

\* Two changesets are submitted, the one returned is the later one, and a
\* changeset of a greater num exists that is not submitted.
C27_Witness ==
  /\ GetLastSubmittedChangeset.error = "none"
  /\ \E n \in 1..counter :
       /\ n < GetLastSubmittedChangeset.num
       /\ changesets[n].status = CHANGESET_SUBMITTED
  /\ \E n \in 1..counter :
       /\ n > GetLastSubmittedChangeset.num
       /\ changesets[n].status \in {CHANGESET_NEW, CHANGESET_PRE_SUBMIT}

\* Client c posts a request to the commit endpoint in this step.
CommitPost(c) == request'[c].id # request[c].id /\ request'[c].changeset # 0

\* The request carries exactly one of manifest and force.
ExactlyOne(r) == Force(r.force) # Manifest(r.manifest)

Drained == queue = <<>> /\ worker = NoTask

\* The statuses of the FileVersion rows of path p, in commit order.
StatusesInCommitOrder(p) ==
  LET rows == SelectSeq(fileVersions, LAMBDA fv : fv.path = p)
  IN  [i \in 1..Len(rows) |-> rows[i].status]

\* C21: with microversions enabled, when the operations issued on the root
\* tree are a write, a second write and a delete of one path p, in this
\* order and nothing else, and the queue is drained, the FileVersion rows of
\* p are exactly three, of statuses created, edited, deleted in commit
\* order, and Exists(p) is false.
C21_WriteWriteDelete ==
  \A p \in MvPaths :
    ( /\ microversions
      /\ Drained
      /\ Len(issued) = 3
      /\ \A i \in 1..3 : issued[i].path = p
      /\ \A i \in 1..3 : issued[i].content # LARGE_FILE_CONTENT
      /\ [i \in 1..3 |-> issued[i].op] = <<"write", "write", "delete">> )
    => /\ StatusesInCommitOrder(p) = <<FILE_CREATED, FILE_EDITED, FILE_DELETED>>
       /\ ~Exists(p)

\* The queue is drained after a write of one content, a write of another
\* content and a delete of one path, and an attempt of the worker has failed
\* on the way.
C21_Witness ==
  \E p \in MvPaths :
    /\ Drained
    /\ Len(issued) = 3
    /\ issued[1] = NewTask("write", p, "x")
    /\ issued[2] = NewTask("write", p, "K")
    /\ issued[3] = NewTask("delete", p, "")
    /\ Len(fileVersions) = 3
    /\ counter > 6

\* The operations among ops that are not writes of an oversized content.
NonOversized(ops) == SelectSeq(ops, LAMBDA t : t.content # LARGE_FILE_CONTENT)

\* The root file of path p after operation t on the root tree.
RootAfter(t) ==
  IF t.op = "delete" THEN NoFile
  ELSE IF t.op = "touch"
       THEN [status |-> NO_STATUS,
             content |-> IF root[t.path] = NoFile THEN ""
                         ELSE root[t.path].content]
       ELSE [status |-> NO_STATUS, content |-> t.content]

\* C22: with microversions enabled, the step of a write, touch or delete
\* without a changeset leaves the root tree as the operation requires and
\* adds exactly the operation's task at the end of the queue, except that
\* the write of an oversized content adds none; no other step adds a task or
\* changes the root tree; and the number of queued tasks is always the
\* number of operations other than oversized writes minus the number of
\* tasks the worker has completed.
C22_OneTaskPerOperation ==
  [][ /\ issued' # issued =>
           /\ Len(issued') = Len(issued) + 1
           /\ SubSeq(issued', 1, Len(issued)) = issued
           /\ LET t == issued'[Len(issued')]
              IN  /\ root'[t.path] = RootAfter(t)
                  /\ \A p \in Paths \ {t.path} : root'[p] = root[p]
                  /\ queue' = IF t.content = LARGE_FILE_CONTENT
                              THEN queue ELSE Append(queue, t)
      /\ issued' = issued =>
           /\ root' = root
           /\ queue' = queue \/ (queue # <<>> /\ queue' = Tail(queue))
      /\ Len(queue') = Len(NonOversized(issued')) - Completed'
    ]_vars

\* Four operations were issued, one of them an oversized write; the task of
\* one was completed and the tasks of the two others are queued.
C22_Witness ==
  /\ Len(issued) = 4
  /\ Len(NonOversized(issued)) = 3
  /\ issued[2].content = LARGE_FILE_CONTENT
  /\ {issued[i].op : i \in 1..4} = {"write", "touch", "delete"}
  /\ Completed = 1
  /\ Len(queue) = 2

\* The root file of path p after the operations ops, applied in order to an
\* empty root tree.
RECURSIVE RootOf(_, _)
RootOf(ops, p) ==
  IF ops = <<>> THEN NoFile
  ELSE LET before == RootOf(SubSeq(ops, 1, Len(ops) - 1), p)
           t == ops[Len(ops)]
       IN  IF t.path # p THEN before
           ELSE IF t.op = "delete" THEN NoFile
           ELSE IF t.op = "write"
                THEN [status |-> NO_STATUS, content |-> t.content]
           ELSE IF before = NoFile
                THEN [status |-> NO_STATUS, content |-> ""]
           ELSE before

\* C23: with microversions enabled, Get(p) without a changeset is the file
\* the operations issued so far leave on the root tree and Exists(p) tells
\* whether there is one, whatever the Pointer of p is and whichever tasks
\* have run; and no step of the worker or of the file query changes either.
C23_ReadsFollowRoot ==
  [][\A p \in Paths :
       /\ Get(p)' = RootOf(issued', p)
       /\ Exists(p)' <=> (RootOf(issued', p) # NoFile)
       /\ issued' = issued => (Get(p)' = Get(p) /\ (Exists(p)' <=> Exists(p)))
    ]_vars

\* The file of p was written and its task committed, p was then deleted and
\* the task of the delete has not run: p has a Pointer and does not exist.
C23_Witness ==
  \E p \in MvPaths :
    /\ microversions
    /\ pointers[p] # 0
    /\ ~Exists(p)
    /\ Get(p) = NoFile
    /\ queue # <<>>
    /\ Head(queue).op = "delete"

\* The staged copy behind the i-th FileVersion row: the file under the
\* staging changeset linked to the row's final changeset.
StagedCopy(i) ==
  GetIn(fileVersions[i].path, changesets[fileVersions[i].changeset_num].linked)

\* The file references a blob.
HasBlob(file) == file.content \in BlobKeys

\* C24: the blob referenced by the staged copy of a FileVersion row is in
\* the blobstore; and when the operations issued on a path are a write of
\* blob K, a write of "x", a write of blob K and a delete, and the queue is
\* drained, the rows are four, the staged copy of the first, created, row
\* references K, and the staged copy of the last, deleted, row references no
\* blob and has no content.
C24_BlobsKept ==
  /\ \A i \in 1..Len(fileVersions) :
       HasBlob(StagedCopy(i)) => StagedCopy(i).content \in blobs
  /\ \A p \in MvPaths :
       ( /\ Drained
         /\ issued = <<NewTask("write", p, "K"), NewTask("write", p, "x"),
                       NewTask("write", p, "K"), NewTask("delete", p, "")>> )
       => /\ Len(fileVersions) = 4
          /\ fileVersions[1].status = FILE_CREATED
          /\ StagedCopy(1).content = "K"
          /\ "K" \in blobs
          /\ fileVersions[4].status = FILE_DELETED
          /\ ~HasBlob(StagedCopy(4))
          /\ StagedCopy(4).content = ""

\* The queue is drained after a write of blob K, a write of "x", a write of
\* blob K and a delete of one path, and the file is gone from the root tree.
C24_Witness ==
  \E p \in MvPaths :
    /\ Drained
    /\ issued = <<NewTask("write", p, "K"), NewTask("write", p, "x"),
                  NewTask("write", p, "K"), NewTask("delete", p, "")>>
    /\ Len(fileVersions) = 4
    /\ HasBlob(StagedCopy(1))
    /\ root[p] = NoFile

C29_TwoNumbersPerCommit ==
  [][ /\ \A c \in Clients :
           /\ CommitStep(c) =>
                LET staging == handle[c].num
                    final == final_changeset[c]
                IN  /\ staging \in 1..counter /\ final \in 1..counter
                    /\ final > staging
                    /\ counter' = counter
                    /\ changesets'[staging] =
                         [status |-> CHANGESET_DELETED_BY_SUBMIT, linked |-> final]
                    /\ changesets'[final] =
                         [status |-> CHANGESET_SUBMITTED, linked |-> staging]
           /\ (pc[c] = "idle" /\ pc'[c] = "commit") => counter' = counter
           /\ (pc[c] = "commit" /\ pc'[c] = "transaction") =>
                /\ counter' = counter + 1
                /\ final_changeset'[c] = counter'
                /\ changesets[counter'] = NoEnt
                /\ changesets'[counter'].status = CHANGESET_PRE_SUBMIT
      /\ counter' # counter =>
           /\ counter' = counter + 1
           /\ \/ changesets'[counter'].status = CHANGESET_NEW
              \/ \E c \in Clients : pc[c] = "commit" /\ pc'[c] = "transaction"
      /\ (microversions /\ CommitStep(Worker)
            /\ counter = 2 * (Completed + 1)) =>
           /\ worker.num = 2 * (Completed + 1) - 1
           /\ final_changeset[Worker] = 2 * (Completed + 1)
    ]_vars

\* Three microversion tasks were committed one after the other with no
\* attempt failing, and the third has staging number 5 and final number 6.
C29_Witness ==
  /\ microversions
  /\ Completed = 3
  /\ counter = 6
  /\ changesets[5] = [status |-> CHANGESET_DELETED_BY_SUBMIT, linked |-> 6]
  /\ changesets[6] = [status |-> CHANGESET_SUBMITTED, linked |-> 5]

\* The n-th operation that enqueued a task has been issued.
Enqueued(n) == Len(NonOversized(issued)) >= n

\* The n-th task is executed: its commit added the n-th FileVersion row, for
\* the path of the n-th operation, which GetFileVersions returns.
Executed(n) ==
  /\ Completed >= n
  /\ Len(fileVersions) >= n
  /\ fileVersions[n].path = NonOversized(issued)[n].path
  /\ \E i \in 1..Len(GetFileVersions(fileVersions[n].path)) :
       GetFileVersions(fileVersions[n].path)[i] = fileVersions[n]

\* C25 as stated: under a fair worker every enqueued task is eventually
\* executed and its execution commits one changeset with the one operation.
\* An execution of a task that has applied the operation goes on through
\* the checks of Commit and through the transaction, which adds exactly one
\* FileVersion row; and the n-th enqueued operation leads to the n-th row.
C25_EveryTaskCommits ==
  /\ [][ /\ (worker.step = "applied" /\ worker' # worker) =>
                worker'.step = "commit"
         /\ (worker.step = "commit" /\ worker' # worker) =>
                /\ CommitStep(Worker)
                /\ Len(fileVersions') = Len(fileVersions) + 1
                /\ queue' = Tail(queue)
       ]_vars
  /\ \A n \in 1..MaxTasks : Enqueued(n) ~> Executed(n)

\* C31 as stated: in the step in which Commit(s) succeeds with final
\* changeset f, the created_by of f and the changeset_created_by of every
\* FileVersion row the commit writes equal the created_by of s.
C31_CreatedByPropagated ==
  [][\A c \in Clients : CommitStep(c) =>
       LET s == handle[c].num
           f == final_changeset[c]
       IN  /\ created_by'[f] = created_by'[s]
           /\ Len(changeset_created_by') = Len(fileVersions')
           /\ \A i \in (Len(fileVersions) + 1)..Len(fileVersions') :
                /\ fileVersions'[i].changeset_num = f
                /\ changeset_created_by'[i] = created_by'[s]
    ]_vars

\* The files stored under changeset n, keyed by plain path, as a listing.
StoredUnder(n) == [p \in Paths |-> files[_MakeVersionedPaths(p, n)].status]

\* C32 as stated: GetFiles on a submitted changeset f returns the mapping
\* from plain paths to the files stored under the staging changeset linked to
\* f, GetFiles on a changeset of any other status returns the files stored
\* under its own number, and the keys are the plain paths.
C32_GetFilesListsStored ==
  \A h \in Handles :
    /\ DOMAIN GetFiles(h) = Paths
    /\ GetFiles(h) =
         IF changeset_ent(h).status = CHANGESET_SUBMITTED
         THEN StoredUnder(changeset_ent(h).linked)
         ELSE StoredUnder(h.num)

\* C33 as stated: for a Get without a changeset of any paths, the store is
\* read at the versioned paths of exactly those requested paths that have a
\* Pointer and never at a plain path; and when none of the requested paths
\* has a Pointer, the hook replaces the inner call with its result, None for
\* a single path and {} for several.
C33_GetShortCircuits ==
  \A paths \in SUBSET Paths \ {{}} :
    /\ VersionedPathsRead(paths) =
         {PointerVersionedPath(p) : p \in {q \in paths : pointers[q] # 0}}
    /\ PlainPathsRead(paths) = {}
    /\ (\A p \in paths : pointers[p] = 0) =>
         /\ HookForGetPre(paths).short_circuit
         /\ GetUnknown(paths, TRUE) = "{}"
         /\ Cardinality(paths) = 1 => GetUnknown(paths, FALSE) = "None"

\* C34 as stated: a step that removes a staged copy (a Delete with a
\* changeset the store has as new) removes the copy of one path under that
\* changeset only and leaves every Pointer, every FileVersion row, every
\* changeset and every other file as it was; a Commit called afterwards,
\* while no copy of p is staged under cs, does not take p among its files;
\* and the commit writes no FileVersion row for a path that is not among its
\* files and leaves that path's Pointer as it was.
C34_DeleteReverts ==
  [][ /\ \A vp \in VersionedPaths :
           (files[vp] # NoFile /\ files'[vp] = NoFile
              /\ changesets[vp[1]].status = CHANGESET_NEW) =>
             /\ \A other \in VersionedPaths \ {vp} : files'[other] = files[other]
             /\ pointers' = pointers
             /\ fileVersions' = fileVersions
             /\ changesets' = changesets
      /\ \A c \in Clients : (pc[c] = "idle" /\ pc'[c] = "commit") =>
           \A p \in Paths : GetIn(p, handle'[c].num) = NoFile =>
             staged_file_objs'[c][p] = "none"
      /\ \A c \in Clients : CommitStep(c) =>
           \A p \in Paths : staged_file_objs[c][p] = "none" =>
             /\ \A fv \in AddedFileVersions : fv.path # p
             /\ pointers'[p] = pointers[p]
    ]_vars

C36_CommittedFilesFrozen ==
  [][\A vp \in VersionedPaths :
       changesets[vp[1]].status = CHANGESET_DELETED_BY_SUBMIT =>
         files'[vp] = files[vp]
    ]_vars

\* C37 as stated: no staged write is left out of its commit. In every
\* reachable state, every file stored under a staging changeset whose status
\* is deleted-by-submit has a FileVersion row of its path under the final
\* changeset the staging changeset is linked to.
C37_StagedFilesHaveVersions ==
  \A s \in Nums : changesets[s].status = CHANGESET_DELETED_BY_SUBMIT =>
    \A p \in Paths : GetIn(p, s) # NoFile =>
      HasFileVersion(changesets[s].linked, p,
                     {FILE_CREATED, FILE_EDITED, FILE_DELETED})

\* The changes of a stored changeset's status that a step may make: the
\* creation as new or as pre-submit, and the two flips of a commit.
StatusTransitions ==
  {<<"none", CHANGESET_NEW>>, <<"none", CHANGESET_PRE_SUBMIT>>,
   <<CHANGESET_NEW, CHANGESET_DELETED_BY_SUBMIT>>,
   <<CHANGESET_PRE_SUBMIT, CHANGESET_SUBMITTED>>}

\* C38: the status of a stored changeset changes only by creation as new,
\* in a step of NewStagingChangeset alone, by creation as pre-submit, in the
\* step of a Commit that allocates its final changeset alone, from new to
\* deleted-by-submit and from pre-submit to submitted, both only in the
\* step of a commit's transaction, for its staging and its final changeset.
\* Submitted and deleted-by-submit are therefore terminal. No stored entity
\* and no Changeset object ever has the status deleted, and every FileVersion
\* row is under a submitted changeset.
C38_StatusTransitions ==
  [][ /\ \A n \in Nums :
           LET old == changesets[n].status
               new == changesets'[n].status
           IN  /\ new # old => <<old, new>> \in StatusTransitions
               /\ (old = "none" /\ new = CHANGESET_NEW) =>
                    /\ n = counter'
                    /\ ncalls' = ncalls + 1
                    /\ pc' = pc
                    /\ held'[n] = changesets'[n]
               /\ (old = "none" /\ new = CHANGESET_PRE_SUBMIT) =>
                    \E c \in Clients :
                      /\ pc[c] = "commit" /\ pc'[c] = "transaction"
                      /\ final_changeset'[c] = n
               /\ (old = CHANGESET_NEW /\ new = CHANGESET_DELETED_BY_SUBMIT) =>
                    \E c \in Clients : CommitStep(c) /\ handle[c].num = n
               /\ (old = CHANGESET_PRE_SUBMIT /\ new = CHANGESET_SUBMITTED) =>
                    \E c \in Clients : CommitStep(c) /\ final_changeset[c] = n
               /\ new # CHANGESET_DELETED
               /\ held'[n].status # CHANGESET_DELETED
      /\ \A i \in 1..Len(fileVersions') :
           changesets'[fileVersions'[i].changeset_num].status =
             CHANGESET_SUBMITTED
    ]_vars

\* Changesets of all four statuses are stored: a committed pair with its
\* FileVersion row, a new staging changeset, and a final changeset left
\* pre-submit by a commit whose transaction failed.
C38_Witness ==
  /\ \E s, f \in Nums :
       /\ changesets[s] = [status |-> CHANGESET_DELETED_BY_SUBMIT, linked |-> f]
       /\ changesets[f] = [status |-> CHANGESET_SUBMITTED, linked |-> s]
       /\ \E i \in 1..Len(fileVersions) : fileVersions[i].changeset_num = f
  /\ \E n \in Nums : changesets[n].status = CHANGESET_NEW
  /\ \E n \in Nums :
       /\ changesets[n].status = CHANGESET_PRE_SUBMIT
       /\ \A c \in Clients : final_changeset[c] # n
  /\ result = "TransactionFailedError"

\* C39: for every path, in the sequence of the statuses of its FileVersion
\* rows in commit order, created occurs only as the first entry or directly
\* after a deleted entry, and edited occurs only directly after a created or
\* an edited entry, whatever the interleaving of the commits.
C39_StatusSequence ==
  \A p \in Paths :
    LET st == StatusesInCommitOrder(p)
    IN  \A i \in 1..Len(st) :
          /\ st[i] = FILE_CREATED => (i = 1 \/ st[i - 1] = FILE_DELETED)
          /\ st[i] = FILE_EDITED =>
               (i > 1 /\ st[i - 1] \in {FILE_CREATED, FILE_EDITED})

\* Two commits of distinct staging changesets overlapped, the one with the
\* greater final number completing first: it recorded the path as deleted
\* and the other one recorded it as created.
C39_Witness ==
  \E p \in Paths :
    LET v == GetFileVersions(p)
    IN  /\ StatusesInCommitOrder(p) = <<FILE_DELETED, FILE_CREATED>>
        /\ Len(v) = 2
        /\ v[1].changeset_num < v[2].changeset_num
        /\ changesets[v[1].changeset_num].linked
             # changesets[v[2].changeset_num].linked
        /\ pointers[p] = changesets[v[1].changeset_num].linked

\* C40: FileVersion(path, changeset) looked up by its key loads the row that
\* Commit wrote for that (final changeset, path) pair and reports the row's
\* status and changeset_created_by, and FileVersionError is raised only for a
\* pair Commit wrote no row for.
C40_LookupLoadsRow ==
  \A p \in Paths, n \in Nums :
    LET rows == {i \in 1..Len(fileVersions) :
                   /\ fileVersions[i].path = p
                   /\ fileVersions[i].changeset_num = n}
    IN  /\ _file_version(p, n) = FileVersionError => rows = {}
        /\ \A i \in rows :
             _file_version(p, n) =
               [status |-> fileVersions[i].status,
                changeset_created_by |-> changeset_created_by[i]]
====
